---- MODULE Spec2Model ----
(***************************************************************************)
(* The timetable engine of the ERP tool server                             *)
(* (src/mcp_server/src/tools/timetable.py) over its document store         *)
(* (src/mcp_server/src/database.py).  The "timetables" collection holds   *)
(* one document per inserted day schedule; every handler reads it with     *)
(* find_one / find_many and changes it with insert_one / update_one.       *)
(***************************************************************************)
EXTENDS Integers, Sequences, FiniteSets, TLC

\* timetables: the documents of the "timetables" collection, in insertion order
\* now:        the clock datetime.now() reads, moved on by every write
\* last, prev: the call that returned last and the one before it, each with
\*             its arguments and the envelope it returned
\* calls:      the calls in flight when handlers run concurrently
VARIABLES timetables, now, last, prev, calls

vars == <<timetables, now, last, prev, calls>>

(***************************************************************************)
(* Python values                                                           *)
(***************************************************************************)
\* Python's None, for optional string arguments and null document fields.
None == "None"

\* The spelling of every string the handlers inspect character by character.
Chars ==
       ("monday"    :> <<"m","o","n","d","a","y">>)
    @@ ("tuesday"   :> <<"t","u","e","s","d","a","y">>)
    @@ ("wednesday" :> <<"w","e","d","n","e","s","d","a","y">>)
    @@ ("thursday"  :> <<"t","h","u","r","s","d","a","y">>)
    @@ ("friday"    :> <<"f","r","i","d","a","y">>)
    @@ ("saturday"  :> <<"s","a","t","u","r","d","a","y">>)
    @@ ("sunday"    :> <<"s","u","n","d","a","y">>)
    @@ ("Monday"    :> <<"M","o","n","d","a","y">>)
    @@ ("Friday"    :> <<"F","r","i","d","a","y">>)
    @@ ("Sunday"    :> <<"S","u","n","d","a","y">>)
    @@ ("funday"    :> <<"f","u","n","d","a","y">>)
    @@ (""          :> <<>>)
    @@ ("09:00"     :> <<"0","9",":","0","0">>)
    @@ ("9:00"      :> <<"9",":","0","0">>)
    @@ ("10:00"     :> <<"1","0",":","0","0">>)
    @@ ("10:30"     :> <<"1","0",":","3","0">>)
    @@ ("11:00"     :> <<"1","1",":","0","0">>)
    @@ ("11:30"     :> <<"1","1",":","3","0">>)
    @@ ("12:00"     :> <<"1","2",":","0","0">>)
    @@ ("25:00"     :> <<"2","5",":","0","0">>)
    @@ ("1000"      :> <<"1","0","0","0">>)
    @@ ("F9"        :> <<"F","9">>)
    @@ ("64f0000000000000000000a1" :>
            <<"6","4","f","0","0","0","0","0","0","0","0","0",
              "0","0","0","0","0","0","0","0","0","0","a","1">>)
    @@ ("64f0000000000000000000b2" :>
            <<"6","4","f","0","0","0","0","0","0","0","0","0",
              "0","0","0","0","0","0","0","0","0","0","b","2">>)

\* str.lower() on one character.
LowerChar(c) ==
    CASE c = "M" -> "m"
      [] c = "F" -> "f"
      [] c = "S" -> "s"
      [] OTHER   -> c

\* str.lower(): every character lowered, read back as a string.
lower(s) ==
    LET c == Chars[s]
        l == [i \in 1..Len(c) |-> LowerChar(c[i])]
    IN  CHOOSE t \in DOMAIN Chars : Chars[t] = l

\* The value of a decimal digit character, -1 for any other character.
DigitVal(c) ==
    CASE c = "0" -> 0 [] c = "1" -> 1 [] c = "2" -> 2 [] c = "3" -> 3
      [] c = "4" -> 4 [] c = "5" -> 5 [] c = "6" -> 6 [] c = "7" -> 7
      [] c = "8" -> 8 [] c = "9" -> 9 [] OTHER -> -1

IsDigit(c) == DigitVal(c) >= 0

\* Python truthiness of an optional string: None and "" are false.
Truthy(s) == s # None /\ s # ""

(***************************************************************************)
(* utils/validators.py                                                     *)
(***************************************************************************)
valid_days ==
    <<"monday", "tuesday", "wednesday", "thursday", "friday", "saturday", "sunday">>

validate_day_of_week(day) ==
    \E i \in 1..Len(valid_days) : valid_days[i] = lower(day)

\* re.match(r'^([0-1]?[0-9]|2[0-3]):[0-5][0-9]$', time_str)
validate_time_format(time_str) ==
    IF ~Truthy(time_str) THEN FALSE
    ELSE LET c == Chars[time_str] IN
         \/ /\ Len(c) = 5
            /\ \/ c[1] \in {"0", "1"} /\ IsDigit(c[2])
               \/ c[1] = "2" /\ DigitVal(c[2]) \in 0..3
            /\ c[3] = ":"
            /\ DigitVal(c[4]) \in 0..5
            /\ IsDigit(c[5])
         \/ /\ Len(c) = 4
            /\ IsDigit(c[1])
            /\ c[2] = ":"
            /\ DigitVal(c[3]) \in 0..5
            /\ IsDigit(c[4])

\* The number a run of one or two digit characters spells, -1 if it is none.
Number(c) ==
    IF Len(c) = 1 /\ IsDigit(c[1]) THEN DigitVal(c[1])
    ELSE IF Len(c) = 2 /\ IsDigit(c[1]) /\ IsDigit(c[2])
         THEN 10 * DigitVal(c[1]) + DigitVal(c[2])
         ELSE -1

\* datetime.strptime(s, '%H:%M').time() as minutes after midnight; -1 where
\* strptime raises ValueError.  %H takes one or two digits up to 23, %M one or
\* two digits up to 59, with a colon between and nothing left over.
strptime(s) ==
    LET c == Chars[s]
        colon == {k \in 1..Len(c) : c[k] = ":"}
    IN  IF Cardinality(colon) # 1 THEN -1
        ELSE LET k == CHOOSE k \in colon : TRUE
                 h == Number(SubSeq(c, 1, k - 1))
                 m == Number(SubSeq(c, k + 1, Len(c)))
             IN  IF h \in 0..23 /\ m \in 0..59 THEN 60 * h + m ELSE -1

(***************************************************************************)
(* utils/formatters.py                                                     *)
(***************************************************************************)
\* The envelope of format_response: errors is present on failures only, data
\* on successes only.
format_error_response(message) ==
    [success |-> FALSE, message |-> message, errors |-> <<message>>, data |-> None]

format_success_response(data, message) ==
    [success |-> TRUE, message |-> message, errors |-> <<>>, data |-> data]

\* The document absent from the store (find_one returning None).
NoDoc == [_id |-> 0]

format_timetable_data(timetable) ==
    IF timetable._id = 0 THEN [id |-> 0]
    ELSE [id        |-> timetable._id,
          dayOfWeek |-> timetable.dayOfWeek,
          slots     |-> timetable.slots,
          createdAt |-> timetable.createdAt,
          updatedAt |-> timetable.updatedAt]

(***************************************************************************)
(* database.py: the "timetables" collection, in insertion order            *)
(***************************************************************************)
Min(S) == CHOOSE x \in S : \A y \in S : x <= y

\* find_one({"dayOfWeek": day}): the first document of that day.
find_one(coll, day) ==
    LET hits == {i \in 1..Len(coll) : coll[i].dayOfWeek = day}
    IN  IF hits = {} THEN NoDoc ELSE coll[Min(hits)]

\* find_one({"_id": id})
find_by_id(coll, id) ==
    LET hits == {i \in 1..Len(coll) : coll[i]._id = id}
    IN  IF hits = {} THEN NoDoc ELSE coll[Min(hits)]

\* insert_one: the document is appended under a fresh _id.
insert_one(coll, document) ==
    Append(coll, [document EXCEPT !._id = Len(coll) + 1])

\* update_one({"_id": id}, update), changed being what the update makes of
\* the stored document: the collection with the document replaced by it;
\* modified_count > 0 iff the document exists (every update of the handlers
\* sets updatedAt to a new time).
update_one(coll, id, changed) ==
    [coll     |-> [i \in 1..Len(coll) |->
                      IF coll[i]._id = id THEN changed ELSE coll[i]],
     modified |-> \E i \in 1..Len(coll) : coll[i]._id = id]

(***************************************************************************)
(* The updates the handlers send to update_one                             *)
(***************************************************************************)
\* A null array element, and an embedded document's missing field (dict.get
\* gives None for both a missing key and a null value; a period that is
\* missing compares unequal to every period asked for, as 0 does here).
NullSlot ==
    [null |-> TRUE, period |-> 0, startTime |-> None, endTime |-> None,
     type |-> None, courseCode |-> None, facultyId |-> None, room |-> None]

EmptySlot == [NullSlot EXCEPT !.null = FALSE]

\* {"$push": {"slots": new_slot}, "$set": {"updatedAt": t}}
push_slot(doc, new_slot, t) ==
    [doc EXCEPT !.slots = Append(@, new_slot), !.updatedAt = t]

\* One slot with the fields of update_fields that are not None written over.
merge_fields(slot, f) ==
    [null       |-> FALSE,
     period     |-> slot.period,
     startTime  |-> IF f.start_time  # None THEN f.start_time  ELSE slot.startTime,
     endTime    |-> IF f.end_time    # None THEN f.end_time    ELSE slot.endTime,
     type       |-> IF f.slot_type   # None THEN f.slot_type   ELSE slot.type,
     courseCode |-> IF f.course_code # None THEN f.course_code ELSE slot.courseCode,
     facultyId  |-> IF f.faculty_id  # None THEN f.faculty_id  ELSE slot.facultyId,
     room       |-> IF f.room        # None THEN f.room        ELSE slot.room]

\* {"$set": {"slots.<slot_index>.<field>": value, ..., "updatedAt": t}}: the
\* element at the 0-based slot_index is patched; past the end of the array the
\* store pads the array with nulls and creates the element from the fields set.
set_slot_fields(doc, slot_index, f, t) ==
    LET n == Len(doc.slots)
        k == slot_index + 1
    IN  [doc EXCEPT
           !.slots = [i \in 1..(IF k > n THEN k ELSE n) |->
                         IF i = k
                         THEN merge_fields(IF k > n \/ doc.slots[k].null
                                           THEN EmptySlot ELSE doc.slots[k], f)
                         ELSE IF i > n THEN NullSlot ELSE doc.slots[i]],
           !.updatedAt = t]

\* {"$unset": {"slots.<slot_index>": 1}, "$pull": {"slots": None},
\*  "$set": {"updatedAt": t}}: the element is nulled, then every null element
\* is pulled out of the array.
unset_and_pull(doc, slot_index, t) ==
    LET k == slot_index + 1
        nulled == [i \in 1..Len(doc.slots) |->
                      IF i = k THEN NullSlot ELSE doc.slots[i]]
        notNull(s) == ~s.null
    IN  [doc EXCEPT !.slots = SelectSeq(nulled, notNull), !.updatedAt = t]

(***************************************************************************)
(* tools/timetable.py: the slot handlers                                   *)
(***************************************************************************)
\* The store call of a handler that raises (connectivity, timeout, a rejected
\* update), if any: every handler catches it and returns a failure envelope.
Faults == {"none", "find", "write", "reread"}

\* What a handler returns: the collection it leaves and its envelope.
Outcome(coll, rsp) == [coll |-> coll, rsp |-> rsp]

\* for i, slot in enumerate(timetable.get("slots", [])):
\*     if slot.get("period") == period: slot_index = i; break
\* The 0-based index of the first slot of that period; -1 when the loop ends
\* with slot_index None; -2 when it meets a null element first (None.get
\* raises AttributeError).
find_slot_index(timetable, period) ==
    LET s == timetable.slots
        hits == {i \in 1..Len(s) : s[i].null \/ s[i].period = period}
    IN  IF hits = {} THEN -1
        ELSE IF s[Min(hits)].null THEN -2
        ELSE Min(hits) - 1

\* new_slot_of with the room left out of the slot.
new_slot_without_room(a) ==
    [null       |-> FALSE,
     period     |-> a.period,
     startTime  |-> a.start_time,
     endTime    |-> a.end_time,
     type       |-> a.slot_type,
     courseCode |-> a.course_code,
     facultyId  |-> a.faculty_id,
     room       |-> None]

new_slot_of(a) ==
    [null       |-> FALSE,
     period     |-> a.period,
     startTime  |-> a.start_time,
     endTime    |-> a.end_time,
     type       |-> a.slot_type,
     courseCode |-> a.course_code,
     facultyId  |-> a.faculty_id,
     room       |-> a.room]

\* Lines 150-176: the message create_timetable_slot rejects its arguments
\* with, None when they pass.
create_rejects(a) ==
    IF ~validate_day_of_week(a.day_of_week) THEN "Invalid day of week format"
    ELSE IF ~validate_time_format(a.start_time)
         THEN "Invalid start time format (use HH:MM)"
    ELSE IF ~validate_time_format(a.end_time)
         THEN "Invalid end time format (use HH:MM)"
    ELSE IF strptime(a.start_time) >= strptime(a.end_time)
         THEN "Start time must be before end time"
    ELSE None

\* create_write storing the day label in the letter case it was given in.
create_write_as_given(coll, clock, existing_timetable, a) ==
    IF existing_timetable._id # 0
    THEN update_one(coll, existing_timetable._id,
                    push_slot(find_by_id(coll, existing_timetable._id),
                              new_slot_of(a), clock))
    ELSE [coll     |-> insert_one(coll, [_id       |-> 0,
                                         dayOfWeek |-> a.day_of_week,
                                         slots     |-> <<new_slot_of(a)>>,
                                         createdAt |-> clock,
                                         updatedAt |-> clock]),
          modified |-> TRUE]

\* create_write sending the document read before with the slot appended,
\* in place of a $push on the stored document.
create_write_stale(coll, clock, existing_timetable, a) ==
    IF existing_timetable._id # 0
    THEN update_one(coll, existing_timetable._id,
                    push_slot(existing_timetable, new_slot_of(a), clock))
    ELSE [coll     |-> insert_one(coll, [_id       |-> 0,
                                         dayOfWeek |-> lower(a.day_of_week),
                                         slots     |-> <<new_slot_of(a)>>,
                                         createdAt |-> clock,
                                         updatedAt |-> clock]),
          modified |-> TRUE]

\* Lines 184-215: the write of create_timetable_slot, given the document the
\* find_one before it returned.
create_write(coll, clock, existing_timetable, a) ==
    IF existing_timetable._id # 0
    THEN update_one(coll, existing_timetable._id,
                    push_slot(find_by_id(coll, existing_timetable._id),
                              new_slot_of(a), clock))
    ELSE [coll     |-> insert_one(coll, [_id       |-> 0,
                                         dayOfWeek |-> lower(a.day_of_week),
                                         slots     |-> <<new_slot_of(a)>>,
                                         createdAt |-> clock,
                                         updatedAt |-> clock]),
          modified |-> TRUE]

\* Lines 223-230: the read after the write and the success envelope.
create_reply(coll, a) ==
    format_success_response(
        format_timetable_data(find_one(coll, lower(a.day_of_week))),
        "Timetable slot created successfully for {day_of_week}")

create_timetable_slot(coll, clock, a, fault) ==
    LET failed == format_error_response("Failed to create timetable slot")
        msg == create_rejects(a)
    IN  IF msg # None THEN Outcome(coll, format_error_response(msg))
        ELSE IF fault = "find" \/ fault = "write" THEN Outcome(coll, failed)
        ELSE LET existing_timetable == find_one(coll, lower(a.day_of_week))
                 w == create_write(coll, clock, existing_timetable, a)
             IN  IF ~w.modified \/ fault = "reread" THEN Outcome(w.coll, failed)
                 ELSE Outcome(w.coll, create_reply(w.coll, a))

\* update_timetable_slot with its validation left out.
update_rejects_nothing(a) == None

\* Lines 261-289: the message update_timetable_slot rejects its arguments
\* with, None when they pass.  A time that is None or "" is not looked at.
update_rejects(a) ==
    IF ~validate_day_of_week(a.day_of_week) THEN "Invalid day of week format"
    ELSE IF Truthy(a.start_time) /\ ~validate_time_format(a.start_time)
         THEN "Invalid start time format (use HH:MM)"
    ELSE IF Truthy(a.end_time) /\ ~validate_time_format(a.end_time)
         THEN "Invalid end time format (use HH:MM)"
    ELSE IF /\ Truthy(a.start_time)
            /\ Truthy(a.end_time)
            /\ strptime(a.start_time) >= strptime(a.end_time)
         THEN "Start time must be before end time"
    ELSE None

\* Lines 316-330: update_fields is empty.
no_update_fields(a) ==
    /\ a.start_time = None
    /\ a.end_time = None
    /\ a.slot_type = None
    /\ a.course_code = None
    /\ a.faculty_id = None
    /\ a.room = None

\* update_stops without the check that a slot was found.
update_stops_unchecked(timetable, a) ==
    IF timetable._id = 0 THEN "No timetable found for {day_of_week}"
    ELSE IF no_update_fields(a) THEN "No update data provided"
    ELSE None

\* Lines 296-334: the message update_timetable_slot stops with after reading
\* the day's document, None when it goes on to write.
update_stops(timetable, a) ==
    IF timetable._id = 0 THEN "No timetable found for {day_of_week}"
    ELSE IF find_slot_index(timetable, a.period) = -2
         THEN "Failed to update timetable slot"
    ELSE IF find_slot_index(timetable, a.period) = -1
         THEN "No slot found for period {period} on {day_of_week}"
    ELSE IF no_update_fields(a) THEN "No update data provided"
    ELSE None

\* Lines 336-343: the write, by the document and slot index read before.
update_write(coll, clock, timetable, a) ==
    update_one(coll, timetable._id,
               set_slot_fields(find_by_id(coll, timetable._id),
                               find_slot_index(timetable, a.period), a, clock))

\* Lines 351-358.
update_reply(coll, timetable) ==
    format_success_response(
        format_timetable_data(find_by_id(coll, timetable._id)),
        "Timetable slot updated successfully for {day_of_week}")

update_timetable_slot(coll, clock, a, fault) ==
    LET failed == format_error_response("Failed to update timetable slot")
        msg == update_rejects(a)
    IN  IF msg # None THEN Outcome(coll, format_error_response(msg))
        ELSE IF fault = "find" THEN Outcome(coll, failed)
        ELSE LET timetable == find_one(coll, lower(a.day_of_week))
                 stop == update_stops(timetable, a)
                 w == update_write(coll, clock, timetable, a)
             IN  IF stop # None THEN Outcome(coll, format_error_response(stop))
                 ELSE IF fault = "write" THEN Outcome(coll, failed)
                 ELSE IF ~w.modified \/ fault = "reread" THEN Outcome(w.coll, failed)
                 ELSE Outcome(w.coll, update_reply(w.coll, timetable))

\* Lines 385-403: the message delete_timetable_slot stops with after reading
\* the day's document, None when it goes on to write.
delete_stops(timetable, a) ==
    IF timetable._id = 0 THEN "No timetable found for {day_of_week}"
    ELSE IF find_slot_index(timetable, a.period) = -2
         THEN "Failed to delete timetable slot"
    ELSE IF find_slot_index(timetable, a.period) = -1
         THEN "No slot found for period {period} on {day_of_week}"
    ELSE None

\* delete_write removing the day's document with its last slot.
delete_write_dropping_day(coll, clock, timetable, a) ==
    LET left == unset_and_pull(find_by_id(coll, timetable._id),
                               find_slot_index(timetable, a.period), clock)
        kept(t) == t._id # timetable._id
    IN  IF left.slots = <<>>
        THEN [coll |-> SelectSeq(coll, kept), modified |-> TRUE]
        ELSE update_one(coll, timetable._id, left)

\* Lines 405-414: the write, by the document and slot index read before.
delete_write(coll, clock, timetable, a) ==
    update_one(coll, timetable._id,
               unset_and_pull(find_by_id(coll, timetable._id),
                              find_slot_index(timetable, a.period), clock))

\* Lines 422-429.
delete_reply(coll, timetable) ==
    format_success_response(
        format_timetable_data(find_by_id(coll, timetable._id)),
        "Timetable slot deleted successfully for {day_of_week}")

\* The update of the write names both slots.<i> and slots, which a store that
\* refuses two operators on one path rejects: that is the outcome of fault
\* "write".
delete_timetable_slot(coll, clock, a, fault) ==
    LET failed == format_error_response("Failed to delete timetable slot")
    IN  IF ~validate_day_of_week(a.day_of_week)
        THEN Outcome(coll, format_error_response("Invalid day of week format"))
        ELSE IF fault = "find" THEN Outcome(coll, failed)
        ELSE LET timetable == find_one(coll, lower(a.day_of_week))
                 stop == delete_stops(timetable, a)
                 w == delete_write(coll, clock, timetable, a)
             IN  IF stop # None THEN Outcome(coll, format_error_response(stop))
                 ELSE IF fault = "write" THEN Outcome(coll, failed)
                 ELSE IF ~w.modified \/ fault = "reread" THEN Outcome(w.coll, failed)
                 ELSE Outcome(w.coll, delete_reply(w.coll, timetable))

get_timetable_by_day(coll, day_of_week, fault) ==
    IF ~validate_day_of_week(day_of_week)
    THEN format_error_response("Invalid day of week format")
    ELSE IF fault = "find"
    THEN format_error_response("Failed to retrieve timetable for day")
    ELSE LET timetable == find_one(coll, lower(day_of_week))
         IN  IF timetable._id = 0
             THEN format_error_response("No timetable found for {day_of_week}")
             ELSE format_success_response(
                      format_timetable_data(timetable),
                      "Timetable for {day_of_week} retrieved successfully")

Range(seq) == {seq[i] : i \in 1..Len(seq)}

(***************************************************************************)
(* tools/timetable.py: check_room_availability                             *)
(***************************************************************************)
\* range(1, 9): the periods of a day.
NumPeriods == 8

RECURSIVE Concat(_)
\* The sequences of a sequence, joined.
Concat(seqs) == IF seqs = <<>> THEN <<>> ELSE Head(seqs) \o Concat(Tail(seqs))

\* Line 556: the days check_room_availability looks for free periods on.
all_days == <<"monday", "tuesday", "wednesday", "thursday", "friday", "saturday">>

\* The documents holding a slot of the room, whatever their day.
room_timetables_any_day(coll, room, day_of_week) ==
    LET matches(t) ==
            \E i \in 1..Len(t.slots) : ~t.slots[i].null /\ t.slots[i].room = room
    IN  SelectSeq(coll, matches)

\* Lines 516-522: find_many("timetables", query), query being
\* {"slots.room": room} with dayOfWeek added when the day given is valid.
room_timetables(coll, room, day_of_week) ==
    LET matches(t) ==
            /\ \E i \in 1..Len(t.slots) : ~t.slots[i].null /\ t.slots[i].room = room
            /\ (Truthy(day_of_week) /\ validate_day_of_week(day_of_week))
                   => t.dayOfWeek = lower(day_of_week)
    IN  SelectSeq(coll, matches)

\* Lines 531-539.
slot_info(day, slot) ==
    [dayOfWeek  |-> day,
     period     |-> slot.period,
     startTime  |-> slot.startTime,
     endTime    |-> slot.endTime,
     type       |-> slot.type,
     courseCode |-> slot.courseCode,
     facultyId  |-> slot.facultyId]

\* time_overlap with the interval ends counted in.
time_overlap_closed(check_start, check_end, slot_start, slot_end) ==
    check_start <= slot_end /\ check_end >= slot_start

\* Line 549.
time_overlap(check_start, check_end, slot_start, slot_end) ==
    check_start < slot_end /\ check_end > slot_start

\* Lines 527-552: the loop meets a null slot (None.get) or, with a window
\* given, a slot of the room beside a time strptime cannot read.
room_loop_raises(found, room, start_time, end_time) ==
    \E t \in Range(found) : \E s \in Range(t.slots) :
        \/ s.null
        \/ /\ s.room = room
           /\ Truthy(start_time) /\ Truthy(end_time)
           /\ \/ strptime(s.startTime) < 0
              \/ strptime(s.endTime) < 0
              \/ strptime(start_time) < 0
              \/ strptime(end_time) < 0

\* Lines 524-552: the conflicts, in the order of the documents and slots.
room_conflicts(found, room, start_time, end_time) ==
    LET listed(s) ==
            /\ s.room = room
            /\ (Truthy(start_time) /\ Truthy(end_time))
                   => time_overlap(strptime(start_time), strptime(end_time),
                                   strptime(s.startTime), strptime(s.endTime))
        of(t) == LET hits == SelectSeq(t.slots, listed)
                 IN  [i \in 1..Len(hits) |-> slot_info(t.dayOfWeek, hits[i])]
    IN  Concat([d \in 1..Len(found) |-> of(found[d])])

\* Lines 554-576: the available slots, day by day.
room_available(found, room, day_of_week, start_time, end_time) ==
    IF Truthy(start_time) /\ Truthy(end_time) THEN <<>>
    ELSE LET of(day) ==
                 IF Truthy(day_of_week) /\ day # lower(day_of_week) THEN <<>>
                 ELSE LET day_timetable == find_one(found, day)
                          occupied_periods ==
                              IF day_timetable._id = 0 THEN {}
                              ELSE {s.period : s \in
                                       {x \in Range(day_timetable.slots) : x.room = room}}
                          free(period) == period \notin occupied_periods
                          periods == SelectSeq([i \in 1..NumPeriods |-> i], free)
                      IN  [i \in 1..Len(periods) |->
                              [dayOfWeek |-> day, period |-> periods[i],
                               status |-> "available"]]
         IN  Concat([d \in 1..Len(all_days) |-> of(all_days[d])])

check_room_availability(coll, a, fault) ==
    LET found == room_timetables(coll, a.room, a.day_of_week)
        conflicts == room_conflicts(found, a.room, a.start_time, a.end_time)
        available_slots ==
            room_available(found, a.room, a.day_of_week, a.start_time, a.end_time)
    IN  IF fault = "find" \/ room_loop_raises(found, a.room, a.start_time, a.end_time)
        THEN format_error_response("Failed to check room availability")
        ELSE format_success_response(
                 [room            |-> a.room,
                  conflicts       |-> conflicts,
                  available_slots |-> available_slots,
                  total_conflicts |-> Len(conflicts),
                  total_available |-> Len(available_slots)],
                 "Room availability checked for {room}")

(***************************************************************************)
(* Ordering of strings, as list.sort and $sort order them                  *)
(***************************************************************************)
\* The characters of the strings compared, by code point.
CodePoints ==
    <<"0", "1", "2", "3", "4", "5", "6", "7", "8", "9", ":", "F", "M", "S",
      "a", "b", "c", "d", "e", "f", "g", "h", "i", "j", "k", "l", "m", "n", "o",
      "p", "q", "r", "s", "t", "u", "v", "w", "x", "y", "z">>

\* The position of each character among the code points.
CharRank == [c \in Range(CodePoints) |-> CHOOSE i \in 1..Len(CodePoints) : CodePoints[i] = c]

RECURSIVE seq_lt(_, _)
\* Lexicographic order of two character sequences.
seq_lt(a, b) ==
    IF b = <<>> THEN FALSE
    ELSE IF a = <<>> THEN TRUE
    ELSE IF Head(a) # Head(b) THEN CharRank[Head(a)] < CharRank[Head(b)]
    ELSE seq_lt(Tail(a), Tail(b))

\* a < b on Python str and on BSON strings, for every pair of strings.
StrLess == [a \in DOMAIN Chars |-> [b \in DOMAIN Chars |-> seq_lt(Chars[a], Chars[b])]]

str_lt(a, b) == StrLess[a][b]

\* A sequence of <<dayOfWeek, n, value>> in ascending (dayOfWeek, n), equal
\* keys in their order of arrival (list.sort is stable): the days in
\* ascending order of their strings, under each day its elements by n.
sorted(seq) ==
    LET days == {seq[i][1] : i \in 1..Len(seq)}
        dayAt(k) == CHOOSE d \in days : Cardinality({e \in days : str_lt(e, d)}) = k - 1
        byN(s) ==
            [k \in 1..Len(s) |->
                s[CHOOSE i \in 1..Len(s) :
                      Cardinality({j \in 1..Len(s) :
                          \/ s[j][2] < s[i][2]
                          \/ j < i /\ s[j][2] = s[i][2]}) = k - 1]]
        ofDay(d) == LET isDay(x) == x[1] = d IN SelectSeq(seq, isDay)
    IN  Concat([k \in 1..Cardinality(days) |-> byN(ofDay(dayAt(k)))])

(***************************************************************************)
(* tools/timetable.py: get_free_periods                                    *)
(***************************************************************************)
\* f"{8 + period}:00" and f"{9 + period}:00": the text of hours 9 to 17.
hour_text ==
    <<"9:00", "10:00", "11:00", "12:00", "13:00", "14:00", "15:00", "16:00", "17:00">>

\* Lines 614-618: find_many("timetables", query).
free_timetables(coll, day_of_week) ==
    LET matches(t) ==
            (Truthy(day_of_week) /\ validate_day_of_week(day_of_week))
                => t.dayOfWeek = lower(day_of_week)
    IN  SelectSeq(coll, matches)

\* days_to_check walking its first day a second time.
days_to_check_repeating(day_of_week) ==
    IF Truthy(day_of_week) THEN <<lower(day_of_week), lower(day_of_week)>>
    ELSE <<"monday", "tuesday", "wednesday", "thursday", "friday", "saturday", "monday">>

\* Line 621.
days_to_check(day_of_week) ==
    IF Truthy(day_of_week) THEN <<lower(day_of_week)>>
    ELSE <<"monday", "tuesday", "wednesday", "thursday", "friday", "saturday">>

\* The slot counts against its period when a faculty filter is given: the
\* room is not looked at.
slot_occupies_faculty_only(slot, faculty_id, room) ==
    \/ Truthy(faculty_id) /\ slot.facultyId = faculty_id
    \/ ~Truthy(faculty_id) /\ Truthy(room) /\ slot.room = room
    \/ ~Truthy(faculty_id) /\ ~Truthy(room)

\* Every slot counts against its period, whatever the filters.
slot_occupies_always(slot, faculty_id, room) == TRUE

\* Lines 646-652: the if / elif / elif that adds the slot's period.
slot_occupies(slot, faculty_id, room) ==
    IF Truthy(faculty_id) /\ slot.facultyId = faculty_id THEN TRUE
    ELSE IF Truthy(room) /\ slot.room = room THEN TRUE
    ELSE ~Truthy(faculty_id) /\ ~Truthy(room)

\* Line 629: the first timetable found of the day.
day_timetable_of(found, day) == find_one(found, day)

\* Lines 645-652: slot.get on a null element of slots raises.
free_loop_raises(found, a) ==
    \E d \in Range(days_to_check(a.day_of_week)) :
        \E s \in Range(IF day_timetable_of(found, d)._id = 0 THEN <<>>
                        ELSE day_timetable_of(found, d).slots) : s.null

\* Lines 631-663: the free periods of one day.
free_of_day(found, day, a) ==
    LET day_timetable == day_timetable_of(found, day)
        occupied_periods ==
            IF day_timetable._id = 0 THEN {}
            ELSE {s.period : s \in {x \in Range(day_timetable.slots) :
                                       slot_occupies(x, a.faculty_id, a.room)}}
        free(period) == period \notin occupied_periods
        periods == SelectSeq([i \in 1..NumPeriods |-> i], free)
    IN  [i \in 1..Len(periods) |->
            [dayOfWeek |-> day,
             period    |-> periods[i],
             startTime |-> hour_text[periods[i]],
             endTime   |-> hour_text[periods[i] + 1],
             status    |-> IF day_timetable._id = 0 THEN "completely_free"
                           ELSE "free"]]

\* Lines 620-666: free_periods, sorted by (dayOfWeek, period).
free_periods_of(found, a) ==
    LET days == days_to_check(a.day_of_week)
        listed == Concat([d \in 1..Len(days) |-> free_of_day(found, days[d], a)])
        keyed == [i \in 1..Len(listed) |->
                     <<listed[i].dayOfWeek, listed[i].period, listed[i]>>]
        inOrder == sorted(keyed)
    IN  [i \in 1..Len(inOrder) |-> inOrder[i][3]]

get_free_periods(coll, a, fault) ==
    LET found == free_timetables(coll, a.day_of_week)
        free_periods == free_periods_of(found, a)
    IN  IF fault = "find" \/ free_loop_raises(found, a)
        THEN format_error_response("Failed to get free periods")
        ELSE format_success_response(
                 [free_periods |-> free_periods,
                  total_free   |-> Len(free_periods),
                  criteria     |-> [day_of_week |-> a.day_of_week,
                                    faculty_id  |-> a.faculty_id,
                                    room        |-> a.room]],
                 "Found {len(free_periods)} free periods")

(***************************************************************************)
(* tools/timetable.py: get_faculty_schedule                                *)
(***************************************************************************)
IsHex(c) == IsDigit(c) \/ c \in {"a", "b", "c", "d", "e", "f", "A", "B", "C", "D", "E", "F"}

\* bson.ObjectId(str): 24 hexadecimal characters.
ObjectIdLen == 24

\* validators.py lines 40-49.
validate_object_id(object_id) ==
    /\ Truthy(object_id)
    /\ Len(Chars[object_id]) = ObjectIdLen
    /\ \A i \in 1..ObjectIdLen : IsHex(Chars[object_id][i])

\* The "faculties" collection: no timetable tool writes it.
faculties ==
    <<[_id |-> "64f0000000000000000000a1", employeeId |-> "EMP001",
       fullName |-> "Dr. A. Kumar"]>>

\* find_one("faculties", {"_id": faculty_id}).
find_faculty(faculty_id) ==
    IF \E i \in 1..Len(faculties) : faculties[i]._id = faculty_id
    THEN faculties[Min({i \in 1..Len(faculties) : faculties[i]._id = faculty_id})]
    ELSE [_id |-> None]

\* $unwind, $match and $group with every timetable kept, matched or not.
faculty_groups_unmatched(coll, faculty_id) == coll

\* Lines 463-472: $unwind slots, $match slots.facultyId, $group by _id with
\* $first of the document's fields and $push of the matching slots.
faculty_groups(coll, faculty_id) ==
    LET matches(slot) == ~slot.null /\ slot.facultyId = faculty_id
        grouped == [i \in 1..Len(coll) |->
                       [coll[i] EXCEPT !.slots = SelectSeq(@, matches)]]
        kept(t) == t.slots # <<>>
    IN  SelectSeq(grouped, kept)

\* Line 473: {"$sort": {"dayOfWeek": 1}}, the strings in ascending order.
sort_by_dayOfWeek(groups) ==
    LET keyed == [i \in 1..Len(groups) |-> <<groups[i].dayOfWeek, 0, groups[i]>>]
        inOrder == sorted(keyed)
    IN  [i \in 1..Len(inOrder) |-> inOrder[i][3]]

\* Lines 462-474: aggregate("timetables", pipeline).
faculty_timetables(coll, faculty_id) ==
    sort_by_dayOfWeek(faculty_groups(coll, faculty_id))

get_faculty_schedule(coll, a, fault) ==
    LET faculty == find_faculty(a.faculty_id)
        found == faculty_timetables(coll, a.faculty_id)
    IN  IF ~validate_object_id(a.faculty_id)
        THEN format_error_response("Invalid faculty ID format")
        ELSE IF fault = "find"
        THEN format_error_response("Failed to retrieve faculty schedule")
        ELSE IF faculty._id = None
        THEN format_error_response("Faculty not found")
        ELSE format_success_response(
                 [faculty  |-> [id         |-> faculty._id,
                                employeeId |-> faculty.employeeId,
                                fullName   |-> faculty.fullName],
                  schedule |-> [i \in 1..Len(found) |-> format_timetable_data(found[i])]],
                 "Faculty schedule retrieved for {employeeId}")

(***************************************************************************)
(* The calls made                                                          *)
(***************************************************************************)
\* Writes stop when the clock reaches MaxClock.
MaxClock == 3

Periods == {1, 2}

\* No optional field supplied.
NoFields ==
    [start_time |-> None, end_time |-> None, slot_type |-> None,
     course_code |-> None, faculty_id |-> None, room |-> None]

\* A request: the handler's arguments, None for those it does not take or
\* that are left out.
Req(day_of_week, period, f) ==
    [day_of_week |-> day_of_week, period |-> period,
     start_time |-> f.start_time, end_time |-> f.end_time,
     slot_type |-> f.slot_type, course_code |-> f.course_code,
     faculty_id |-> f.faculty_id, room |-> f.room]

ValidCreateArgs ==
    {Req(d, p, [NoFields EXCEPT !.start_time = "09:00", !.end_time = "10:00",
                                !.slot_type = "class", !.course_code = "CS101",
                                !.room = "R101"]) :
         d \in {"monday", "Friday"}, p \in Periods}

InvalidCreateArgs ==
    LET ok == Req("monday", 1,
                  [NoFields EXCEPT !.start_time = "09:00", !.end_time = "10:00",
                                   !.slot_type = "class", !.room = "R101"])
    IN  {[ok EXCEPT !.day_of_week = "funday"],
         [ok EXCEPT !.start_time = "25:00"],
         [ok EXCEPT !.start_time = ""],
         [ok EXCEPT !.end_time = "1000"],
         [ok EXCEPT !.end_time = "09:00"]}

CreateArgs == ValidCreateArgs \cup InvalidCreateArgs

UpdateFieldSets ==
    {NoFields,
     [NoFields EXCEPT !.start_time = "10:00"],
     [NoFields EXCEPT !.start_time = "25:00"],
     [NoFields EXCEPT !.end_time = "09:00"],
     [NoFields EXCEPT !.start_time = "10:00", !.end_time = "09:00"],
     [NoFields EXCEPT !.start_time = "10:00", !.end_time = "11:00"],
     [NoFields EXCEPT !.slot_type = "lab"],
     [NoFields EXCEPT !.course_code = "CS102"],
     [NoFields EXCEPT !.faculty_id = "F9"],
     [NoFields EXCEPT !.room = "R102"]}

UpdateArgs ==
    {Req(d, p, f) : d \in {"monday", "Friday"}, p \in Periods, f \in UpdateFieldSets}
    \cup {Req("funday", 1, [NoFields EXCEPT !.room = "R102"])}

DeleteArgs ==
    {Req(d, p, NoFields) : d \in {"monday", "Friday", "funday"}, p \in Periods}

GetArgs == {Req(d, 0, NoFields) : d \in {"monday", "Monday", "Friday", "funday"}}

\* The calls in flight when handlers run concurrently.
Procs == {"p1", "p2"}

Idle == [pc |-> "idle"]

Returned(op, req, rsp) == [op |-> op, req |-> req, rsp |-> rsp]

Init ==
    /\ timetables = <<>>
    /\ now = 0
    /\ last = Returned("none", Req(None, 0, NoFields), format_error_response(None))
    /\ prev = Returned("none", Req(None, 0, NoFields), format_error_response(None))
    /\ calls = [p \in Procs |-> Idle]

\* A call that returns a failure or only reads leaves no trace but its envelope
\* (a failed call that did write leaves the store its successful twin leaves),
\* so every call that can follow it can follow the state before it: it is
\* explored as the last call of a run, and runs are continued after the
\* successful writes.
Settled ==
    \/ last.op = "none"
    \/ /\ last.rsp.success
       /\ last.op \in {"create_timetable_slot", "update_timetable_slot",
                       "delete_timetable_slot"}

\* A handler run from call to return: the collection it leaves, the clock
\* moved past the write it made, its envelope returned.
Runs(op, a, out) ==
    /\ Settled
    /\ timetables' = out.coll
    /\ now' = IF out.coll # timetables THEN now + 1 ELSE now
    /\ last' = Returned(op, a, out.rsp)
    /\ prev' = last
    /\ UNCHANGED calls

CreateSlot ==
    \E a \in CreateArgs, fault \in Faults :
        /\ now < MaxClock
        /\ Runs("create_timetable_slot", a,
                create_timetable_slot(timetables, now, a, fault))

UpdateSlot ==
    \E a \in UpdateArgs, fault \in Faults :
        /\ now < MaxClock
        /\ Runs("update_timetable_slot", a,
                update_timetable_slot(timetables, now, a, fault))

DeleteSlot ==
    \E a \in DeleteArgs, fault \in Faults :
        /\ now < MaxClock
        /\ Runs("delete_timetable_slot", a,
                delete_timetable_slot(timetables, now, a, fault))

GetByDay ==
    \E a \in GetArgs, fault \in {"none", "find"} :
        Runs("get_timetable_by_day", a,
             Outcome(timetables, get_timetable_by_day(timetables, a.day_of_week, fault)))

Next == CreateSlot \/ UpdateSlot \/ DeleteSlot \/ GetByDay

Spec == Init /\ [][Next]_vars

(***************************************************************************)
(* Handlers running concurrently: each await of a store call is a point    *)
(* where another call's step may come in between.                          *)
(***************************************************************************)
\* Writes of concurrent calls stop when the clock reaches MaxConcClock.
MaxConcClock == 4

ConcCreateArgs ==
    {Req("monday", p, [NoFields EXCEPT !.start_time = "09:00", !.end_time = "10:00",
                                       !.slot_type = "class", !.course_code = "CS101",
                                       !.room = "R101"]) : p \in Periods}

ConcUpdateArgs == {Req("monday", p, [NoFields EXCEPT !.room = "R102"]) : p \in Periods}

ConcDeleteArgs == {Req("monday", p, NoFields) : p \in Periods}

\* The calls that have read and not yet written.
Writing == {p \in Procs : calls[p].pc = "write"}

\* A call returns its envelope.
Returns(p, op, a, rsp) ==
    /\ last' = Returned(op, a, rsp)
    /\ prev' = last
    /\ calls' = [calls EXCEPT ![p] = Idle]

\* A call has passed its checks and read the day's document: it goes on to
\* its write, holding the document it read.
Proceeds(p, op, a) ==
    /\ calls' = [calls EXCEPT ![p] =
                    [pc |-> "write", op |-> op, req |-> a,
                     timetable |-> find_one(timetables, lower(a.day_of_week))]]
    /\ UNCHANGED <<last, prev>>

\* Lines 149-182 of a call: validation and the find_one of the day.
CreateBegins(p) ==
    \E a \in ConcCreateArgs :
        /\ calls[p] = Idle
        /\ now + Cardinality(Writing) < MaxConcClock
        /\ IF create_rejects(a) # None
           THEN Returns(p, "create_timetable_slot", a,
                        format_error_response(create_rejects(a)))
           ELSE Proceeds(p, "create_timetable_slot", a)
        /\ UNCHANGED <<timetables, now>>

\* Lines 260-334 of a call: validation, the find_one of the day, the search
\* for the slot.
UpdateBegins(p) ==
    \E a \in ConcUpdateArgs :
        LET stop == IF update_rejects(a) # None THEN update_rejects(a)
                    ELSE update_stops(find_one(timetables, lower(a.day_of_week)), a)
        IN  /\ calls[p] = Idle
            /\ now + Cardinality(Writing) < MaxConcClock
            /\ IF stop # None
               THEN Returns(p, "update_timetable_slot", a, format_error_response(stop))
               ELSE Proceeds(p, "update_timetable_slot", a)
            /\ UNCHANGED <<timetables, now>>

\* Lines 373-403 of a call.
DeleteBegins(p) ==
    \E a \in ConcDeleteArgs :
        LET stop == IF ~validate_day_of_week(a.day_of_week)
                    THEN "Invalid day of week format"
                    ELSE delete_stops(find_one(timetables, lower(a.day_of_week)), a)
        IN  /\ calls[p] = Idle
            /\ now + Cardinality(Writing) < MaxConcClock
            /\ IF stop # None
               THEN Returns(p, "delete_timetable_slot", a, format_error_response(stop))
               ELSE Proceeds(p, "delete_timetable_slot", a)
            /\ UNCHANGED <<timetables, now>>

\* The write of a call, by what the call read before.
write_of(coll, clock, call) ==
    CASE call.op = "create_timetable_slot" ->
             create_write(coll, clock, call.timetable, call.req)
      [] call.op = "update_timetable_slot" ->
             update_write(coll, clock, call.timetable, call.req)
      [] call.op = "delete_timetable_slot" ->
             delete_write(coll, clock, call.timetable, call.req)

\* The message of a call's "if not success" return.
failed_of(call) ==
    CASE call.op = "create_timetable_slot" -> "Failed to create timetable slot"
      [] call.op = "update_timetable_slot" -> "Failed to update timetable slot"
      [] call.op = "delete_timetable_slot" -> "Failed to delete timetable slot"

\* The read after the write, and the success envelope.
reply_of(coll, call) ==
    CASE call.op = "create_timetable_slot" -> create_reply(coll, call.req)
      [] call.op = "update_timetable_slot" -> update_reply(coll, call.timetable)
      [] call.op = "delete_timetable_slot" -> delete_reply(coll, call.timetable)

\* Lines 195-221, 338-349, 405-420 of a call.
Writes(p) ==
    /\ calls[p].pc = "write"
    /\ LET w == write_of(timetables, now, calls[p])
       IN  /\ timetables' = w.coll
           /\ now' = now + 1
           /\ IF w.modified
              THEN /\ calls' = [calls EXCEPT ![p].pc = "reread"]
                   /\ UNCHANGED <<last, prev>>
              ELSE Returns(p, calls[p].op, calls[p].req,
                           format_error_response(failed_of(calls[p])))

\* Lines 223-230, 351-358, 422-429 of a call.
Replies(p) ==
    /\ calls[p].pc = "reread"
    /\ Returns(p, calls[p].op, calls[p].req, reply_of(timetables, calls[p]))
    /\ UNCHANGED <<timetables, now>>

NextConc ==
    \E p \in Procs :
        \/ CreateBegins(p)
        \/ UpdateBegins(p)
        \/ DeleteBegins(p)
        \/ Writes(p)
        \/ Replies(p)

SpecConc == Init /\ [][NextConc]_vars

(***************************************************************************)
(* Rooms: slots are created, then a room's availability is asked for       *)
(***************************************************************************)
MaxRoomClock == 3

RoomDays == {"monday", "sunday"}

\* period, start_time, end_time of the slots created in the room asked about.
RoomTimes == {<<1, "09:00", "10:00">>, <<2, "10:00", "11:00">>, <<2, "9:00", "10:30">>}

\* The slots created: those of room R101, and one a day in another room.
RoomCreateArgs ==
    {Req(d, t[1], [NoFields EXCEPT !.start_time = t[2], !.end_time = t[3],
                                   !.slot_type = "class", !.course_code = "CS101",
                                   !.room = "R101"]) :
        d \in RoomDays, t \in RoomTimes}
    \cup
    {Req(d, 1, [NoFields EXCEPT !.start_time = "09:00", !.end_time = "10:00",
                                !.slot_type = "class", !.course_code = "CS101",
                                !.room = "Lab1"]) :
        d \in RoomDays}

\* start_time, end_time of the calls: none, one alone, four windows, one
\* that is no time of day.
RoomWindows ==
    {<<None, None>>, <<"10:00", None>>, <<"10:00", "11:00">>, <<"9:00", "10:00">>,
     <<"10:30", "11:30">>, <<"11:00", "12:00">>, <<"25:00", "10:00">>}

RoomArgs ==
    {Req(d, 0, [NoFields EXCEPT !.room = r, !.start_time = w[1], !.end_time = w[2]]) :
        d \in {None, "Monday", "sunday", "funday"},
        r \in {"R101", "R999"},
        w \in RoomWindows}

RoomCreate ==
    \E a \in RoomCreateArgs :
        /\ now < MaxRoomClock
        /\ Runs("create_timetable_slot", a,
                create_timetable_slot(timetables, now, a, "none"))

CheckRoom ==
    \E a \in RoomArgs, fault \in {"none", "find"} :
        Runs("check_room_availability", a,
             Outcome(timetables, check_room_availability(timetables, a, fault)))

NextRoom == RoomCreate \/ CheckRoom

SpecRoom == Init /\ [][NextRoom]_vars

(***************************************************************************)
(* Queries: slots are created, then free periods or a faculty's schedule   *)
(* are asked for                                                           *)
(***************************************************************************)
MaxQueryClock == 2

QueryDays == {"monday", "friday", "sunday"}

\* facultyId and room of the slots created.
QueryBindings == {<<"64f0000000000000000000a1", "Lab1">>, <<"64f0000000000000000000b2", "R101">>}

QueryCreateArgs ==
    {Req(d, p, [NoFields EXCEPT !.start_time = "09:00", !.end_time = "10:00",
                                !.slot_type = "class", !.course_code = "CS101",
                                !.faculty_id = b[1], !.room = b[2]]) :
        d \in QueryDays, p \in Periods, b \in QueryBindings}

FreeArgs ==
    {Req(d, 0, [NoFields EXCEPT !.faculty_id = f, !.room = r]) :
        d \in {None, "Monday", "sunday"},
        f \in {None, "64f0000000000000000000a1"},
        r \in {None, "R101"}}

FacultyArgs ==
    {Req(None, 0, [NoFields EXCEPT !.faculty_id = f]) :
        f \in {"64f0000000000000000000a1", "64f0000000000000000000b2", "F9"}}

QueryCreate ==
    \E a \in QueryCreateArgs :
        /\ now < MaxQueryClock
        /\ Runs("create_timetable_slot", a,
                create_timetable_slot(timetables, now, a, "none"))

\* A get_free_periods that empties the collection it reads.
free_periods_call_clearing(coll, a, fault) ==
    Outcome(<<>>, get_free_periods(coll, a, fault))

\* Lines 609-683: the call reads with find_many and writes nothing.
free_periods_call(coll, a, fault) ==
    Outcome(coll, get_free_periods(coll, a, fault))

FreePeriods ==
    \E a \in FreeArgs, fault \in {"none", "find"} :
        Runs("get_free_periods", a, free_periods_call(timetables, a, fault))

\* The call just answered is made once more with the same arguments, no
\* other call in between.
FreePeriodsAgain ==
    \E fault \in {"none", "find"} :
        LET out == free_periods_call(timetables, last.req, fault)
        IN  /\ last.op = "get_free_periods" /\ last.rsp.success
            /\ prev.op # "get_free_periods"
            /\ timetables' = out.coll
            /\ last' = Returned("get_free_periods", last.req, out.rsp)
            /\ prev' = last
            /\ UNCHANGED <<now, calls>>

FacultySchedule ==
    \E a \in FacultyArgs, fault \in {"none", "find"} :
        Runs("get_faculty_schedule", a,
             Outcome(timetables, get_faculty_schedule(timetables, a, fault)))

QueryRoomArgs ==
    {Req(d, 0, [NoFields EXCEPT !.room = r, !.start_time = w[1], !.end_time = w[2]]) :
        d \in {None, "Monday"},
        r \in {"R101", "R999"},
        w \in {<<None, None>>, <<"9:00", "10:30">>}}

QueryCheckRoom ==
    \E a \in QueryRoomArgs :
        Runs("check_room_availability", a,
             Outcome(timetables, check_room_availability(timetables, a, "none")))

NextQuery ==
    \/ QueryCreate
    \/ FreePeriods
    \/ FreePeriodsAgain
    \/ FacultySchedule
    \/ QueryCheckRoom

SpecQuery == Init /\ [][NextQuery]_vars

(***************************************************************************)
(* Properties of the slot handlers                                         *)
(***************************************************************************)
\* The stored slots of a day, all its documents together.
SlotsOf(coll, day) ==
    {s \in UNION {Range(coll[i].slots) : i \in 1..Len(coll)} :
        \E i \in 1..Len(coll) : coll[i].dayOfWeek = day /\ s \in Range(coll[i].slots)}

Called(op) == last'.op = op

Succeeded(op) == last.op = op /\ last.rsp.success

\* C1: no DaySchedule ever holds two slots with the same period number.
C1_PeriodUnique ==
    \A d \in 1..Len(timetables) :
        \A i, j \in 1..Len(timetables[d].slots) :
            i # j => timetables[d].slots[i].period # timetables[d].slots[j].period

\* C2: create_timetable_slot on a day that already holds a slot at the period
\* asked for is rejected and leaves the day's slots as they were.
C2_CreateOnOccupiedRejected ==
    [][(/\ Called("create_timetable_slot")
        /\ create_rejects(last'.req) = None
        /\ \E s \in SlotsOf(timetables, lower(last'.req.day_of_week)) :
               s.period = last'.req.period)
       => ~last'.rsp.success /\ timetables' = timetables]_vars

\* C3: every stored slot has a start time before its end time.
C3_TimeOrdered ==
    \A d \in 1..Len(timetables) :
        \A s \in Range(timetables[d].slots) :
            /\ strptime(s.startTime) >= 0
            /\ strptime(s.startTime) < strptime(s.endTime)

\* The stored slot has exactly the fields a create request gave.
AsCreated(s, req) ==
    /\ s.period = req.period
    /\ s.startTime = req.start_time
    /\ s.endTime = req.end_time
    /\ s.type = req.slot_type
    /\ s.courseCode = req.course_code
    /\ s.facultyId = req.faculty_id
    /\ s.room = req.room

\* The store answered the call: its envelope is not the one of the handler's
\* except branch.
Answered(call) ==
    call.rsp.message \notin {"Failed to create timetable slot",
                             "Failed to update timetable slot",
                             "Failed to delete timetable slot",
                             "Failed to retrieve timetable for day",
                             "Failed to check room availability",
                             "Failed to get free periods",
                             "Failed to retrieve faculty schedule"}

\* C5: get_timetable_by_day(day) right after a successful
\* create_timetable_slot(day, ...) returns the day with a slot that has
\* exactly the created period, times, type, course, faculty and room.
C5_CreateThenGet ==
    [][(/\ Succeeded("create_timetable_slot")
        /\ Called("get_timetable_by_day")
        /\ last'.req.day_of_week = last.req.day_of_week
        /\ Answered(last'))
       => /\ last'.rsp.success
          /\ \E s \in Range(last'.rsp.data.slots) : AsCreated(s, last.req)]_vars

\* C5 happens: a day read back after a slot was created on it as the day's
\* second slot, under a day label that is not lower-case.
C5_Witness ==
    /\ prev.op = "create_timetable_slot" /\ prev.rsp.success
    /\ last.op = "get_timetable_by_day" /\ last.rsp.success
    /\ last.req.day_of_week = "Friday" /\ prev.req.day_of_week = "Friday"
    /\ Len(last.rsp.data.slots) = 2

\* The day holds no slot at the period a request names.
NoSlotAt(coll, req) ==
    \A s \in SlotsOf(coll, lower(req.day_of_week)) : s.period # req.period

UpdateOrDelete(call) ==
    call.op \in {"update_timetable_slot", "delete_timetable_slot"}

\* C6 as claimed: on a valid day with no slot at period P, update and delete
\* fail with the slot-not-found error, whether or not the day has a
\* DaySchedule, and change nothing.
C6_SlotNotFoundAlways ==
    [][(/\ UpdateOrDelete(last')
        /\ update_rejects(last'.req) = None
        /\ Answered(last')
        /\ NoSlotAt(timetables, last'.req))
       => /\ last'.rsp.message = "No slot found for period {period} on {day_of_week}"
          /\ timetables' = timetables]_vars

\* C6 amended: on a valid day with no slot at period P, update and delete
\* fail and change nothing; when the arguments pass validation and the store
\* answers, the failure is slot-not-found if the day has a DaySchedule and
\* schedule-not-found ("No timetable found") if it has none.
C6_NotFound ==
    [][(/\ UpdateOrDelete(last')
        /\ validate_day_of_week(last'.req.day_of_week)
        /\ NoSlotAt(timetables, last'.req))
       => /\ ~last'.rsp.success
          /\ timetables' = timetables
          /\ (update_rejects(last'.req) = None /\ Answered(last'))
             => last'.rsp.message =
                    IF find_one(timetables, lower(last'.req.day_of_week))._id = 0
                    THEN "No timetable found for {day_of_week}"
                    ELSE "No slot found for period {period} on {day_of_week}"]_vars

\* C6 happens: an update naming a period the day has no slot at has failed
\* on a day whose DaySchedule holds another slot.
C6_Witness ==
    /\ last.op = "update_timetable_slot"
    /\ last.rsp.message = "No slot found for period {period} on {day_of_week}"
    /\ find_one(timetables, lower(last.req.day_of_week)).slots # <<>>
    /\ NoSlotAt(timetables, last.req)

\* C7: a successful delete_timetable_slot(day, P) leaves the day without a
\* slot at period P, its other slots as they were, and every other day as it
\* was.
C7_DeleteRemoves ==
    [][(Called("delete_timetable_slot") /\ last'.rsp.success)
       => LET day == lower(last'.req.day_of_week)
              other(s) == s.period # last'.req.period
          IN  /\ Len(timetables') = Len(timetables)
              /\ \A i \in 1..Len(timetables) :
                     IF timetables[i].dayOfWeek = day
                     THEN timetables'[i].slots = SelectSeq(timetables[i].slots, other)
                     ELSE timetables'[i] = timetables[i]]_vars

\* The request supplies room and nothing else.
OnlyRoom(req) == req.room # None /\ [req EXCEPT !.room = None] = Req(req.day_of_week, req.period, NoFields)

\* C8: after create_timetable_slot, then update_timetable_slot of the same
\* day and period supplying only room, get_timetable_by_day shows the created
\* slot with the new room and its other fields as created, and every other
\* slot of the day as it was.
C8_RoomRoundTrip ==
    [][(/\ prev.op = "create_timetable_slot" /\ prev.rsp.success
        /\ Succeeded("update_timetable_slot")
        /\ last.req.day_of_week = prev.req.day_of_week
        /\ last.req.period = prev.req.period
        /\ OnlyRoom(last.req)
        /\ Called("get_timetable_by_day")
        /\ last'.req.day_of_week = last.req.day_of_week
        /\ Answered(last'))
       => /\ last'.rsp.success
          /\ LET created == prev.rsp.data.slots
                 shown == last'.rsp.data.slots
                 n == Len(created)
             IN  /\ Len(shown) = n
                 /\ AsCreated(created[n], prev.req)
                 /\ shown[n] = [created[n] EXCEPT !.room = last.req.room]
                 /\ \A i \in 1..(n - 1) : shown[i] = created[i]]_vars

(***************************************************************************)
(* Properties of the collection under concurrent calls                     *)
(***************************************************************************)
\* C4: no two documents of the timetables collection share a dayOfWeek.
C4_OneDocPerDay ==
    \A i, j \in 1..Len(timetables) :
        timetables[i].dayOfWeek = timetables[j].dayOfWeek => i = j

(***************************************************************************)
(* Properties of check_room_availability                                   *)
(***************************************************************************)
Count(seq, x) == Cardinality({i \in 1..Len(seq) : seq[i] = x})

\* The day is absent or one of the seven day names.
DayGivenOrNone(req) == ~Truthy(req.day_of_week) \/ validate_day_of_week(req.day_of_week)

\* The stored slots bound to the room of the request on the day it names,
\* on every day if it names none: document and position of each.
RoomSlotsAsked(coll, req) ==
    {e \in UNION {{<<d, i>> : i \in 1..Len(coll[d].slots)} : d \in 1..Len(coll)} :
        /\ coll[e[1]].slots[e[2]].room = req.room
        /\ Truthy(req.day_of_week) => coll[e[1]].dayOfWeek = lower(req.day_of_week)}

\* The request gives a window of two well-formed times.
HasWindow(req) ==
    /\ Truthy(req.start_time) /\ Truthy(req.end_time)
    /\ validate_time_format(req.start_time) /\ validate_time_format(req.end_time)

\* The slot's interval meets the window's, both half-open.
Overlaps(req, slot) ==
    /\ strptime(req.start_time) < strptime(slot.endTime)
    /\ strptime(req.end_time) > strptime(slot.startTime)

\* The conflicts of the reply are the slots of hits, each once.
ConflictsAre(coll, rsp, hits) ==
    /\ rsp.data.total_conflicts = Cardinality(hits)
    /\ Len(rsp.data.conflicts) = Cardinality(hits)
    /\ \A e \in hits :
           LET x == slot_info(coll[e[1]].dayOfWeek, coll[e[1]].slots[e[2]])
           IN  Count(rsp.data.conflicts, x) =
                   Cardinality({h \in hits :
                       slot_info(coll[h[1]].dayOfWeek, coll[h[1]].slots[h[2]]) = x})

\* C9: given a window [S, E) of two well-formed times, check_room_availability
\* lists a slot bound to the room as a conflict exactly when S is before the
\* slot's end and E is after the slot's start.
C9_WindowConflicts ==
    (/\ last.op = "check_room_availability"
     /\ HasWindow(last.req)
     /\ DayGivenOrNone(last.req)
     /\ Answered(last))
    => /\ last.rsp.success
       /\ ConflictsAre(timetables, last.rsp,
              {e \in RoomSlotsAsked(timetables, last.req) :
                  Overlaps(last.req, timetables[e[1]].slots[e[2]])})

\* C9 happens: a window that begins where one slot of the room ends and runs
\* into another slot of the room has been answered.
C9_Witness ==
    /\ last.op = "check_room_availability" /\ last.rsp.success
    /\ HasWindow(last.req)
    /\ LET asked == RoomSlotsAsked(timetables, last.req)
       IN  /\ \E e \in asked :
                  strptime(timetables[e[1]].slots[e[2]].endTime) = strptime(last.req.start_time)
           /\ \E e \in asked : Overlaps(last.req, timetables[e[1]].slots[e[2]])
    /\ last.rsp.data.total_conflicts > 0

\* C10: given no window, check_room_availability lists as conflicts exactly
\* the slots bound to the room, on the day given if one is given and on every
\* day otherwise; a room bound to no slot has no conflicts.
C10_NoWindowConflicts ==
    (/\ last.op = "check_room_availability"
     /\ ~Truthy(last.req.start_time) /\ ~Truthy(last.req.end_time)
     /\ DayGivenOrNone(last.req)
     /\ Answered(last))
    => /\ last.rsp.success
       /\ ConflictsAre(timetables, last.rsp, RoomSlotsAsked(timetables, last.req))

\* C10 happens: a room has been asked about for one day with no window while
\* it holds a slot on that day and one on another day, and another room holds
\* a slot on the day asked.
C10_Witness ==
    /\ last.op = "check_room_availability" /\ last.rsp.success
    /\ ~Truthy(last.req.start_time) /\ ~Truthy(last.req.end_time)
    /\ Truthy(last.req.day_of_week)
    /\ last.rsp.data.total_conflicts > 0
    /\ \E d \in 1..Len(timetables) : \E s \in Range(timetables[d].slots) :
           s.room = last.req.room /\ timetables[d].dayOfWeek # lower(last.req.day_of_week)
    /\ \E d \in 1..Len(timetables) : \E s \in Range(timetables[d].slots) :
           s.room # last.req.room /\ timetables[d].dayOfWeek = lower(last.req.day_of_week)

\* The days a request is about: the day it names, or all seven.
DaysAsked(req) ==
    IF Truthy(req.day_of_week) THEN {lower(req.day_of_week)} ELSE Range(valid_days)

\* C11: for any room, optional day and optional window, check_room_availability
\* lists, for each day asked (the day given, or each of the seven when none is
\* given), period p of 1..8 as available exactly when no slot of that day bound
\* to the room has period p.
C11_AvailablePeriods ==
    (/\ last.op = "check_room_availability"
     /\ last.rsp.success
     /\ DayGivenOrNone(last.req))
    => \A day \in DaysAsked(last.req) : \A p \in 1..NumPeriods :
           ([dayOfWeek |-> day, period |-> p, status |-> "available"]
                \in Range(last.rsp.data.available_slots))
           <=> ~\E s \in SlotsOf(timetables, day) :
                   s.room = last.req.room /\ s.period = p

\* A time is given and is not HH:MM.
Malformed(t) == Truthy(t) /\ ~validate_time_format(t)

\* C12: check_room_availability given a malformed start or end time returns a
\* failure whatever the stored timetable, also when no slot is bound to the
\* room asked about.
C12_MalformedWindowFails ==
    (/\ last.op = "check_room_availability"
     /\ Malformed(last.req.start_time) \/ Malformed(last.req.end_time))
    => ~last.rsp.success

(***************************************************************************)
(* Properties of get_free_periods                                          *)
(***************************************************************************)
\* The slot answers the filters of the request: its faculty when only a
\* faculty is given, its room when only a room is given, any slot when
\* neither is given.
Engages(slot, req) ==
    IF Truthy(req.faculty_id) THEN slot.facultyId = req.faculty_id
    ELSE IF Truthy(req.room) THEN slot.room = req.room
    ELSE TRUE

\* Period p of the day is free for the request: no slot of the day at p
\* answers its filters (none can on a day without a DaySchedule).
FreeFor(coll, req, day, p) ==
    ~\E s \in SlotsOf(coll, day) : s.period = p /\ Engages(s, req)

\* The reply lists period p of the day as free.
ListsFree(rsp, day, p) ==
    \E x \in Range(rsp.data.free_periods) : x.dayOfWeek = day /\ x.period = p

\* The days of which the reply lists a period.
DaysListed(rsp) == {x.dayOfWeek : x \in Range(rsp.data.free_periods)}

\* C13: get_free_periods with at most one of the faculty and room filters
\* lists a period of a day as free exactly when the occupancy rule frees it:
\* every period 1..8 on a day without a DaySchedule; otherwise the periods
\* where no slot has the faculty given, or the room given, or where there is
\* no slot at all when neither is given. Checked for the day given, and, when
\* no day is given, for every day the reply lists (the days a call without a
\* day covers are the matter of C15).
C13_OccupancyRule ==
    (/\ last.op = "get_free_periods"
     /\ last.rsp.success
     /\ DayGivenOrNone(last.req)
     /\ ~(Truthy(last.req.faculty_id) /\ Truthy(last.req.room)))
    => /\ \A x \in Range(last.rsp.data.free_periods) :
              /\ x.period \in 1..NumPeriods
              /\ FreeFor(timetables, last.req, x.dayOfWeek, x.period)
       /\ \A day \in (IF Truthy(last.req.day_of_week) THEN DaysAsked(last.req)
                      ELSE DaysListed(last.rsp)) :
              \A p \in 1..NumPeriods :
                  FreeFor(timetables, last.req, day, p) => ListsFree(last.rsp, day, p)

\* C13 happens: free periods have been asked for one faculty on a day given,
\* where one period holds a slot of that faculty and another period holds a
\* slot of another faculty only.
C13_Witness ==
    /\ last.op = "get_free_periods" /\ last.rsp.success
    /\ Truthy(last.req.day_of_week)
    /\ Truthy(last.req.faculty_id) /\ ~Truthy(last.req.room)
    /\ LET day == lower(last.req.day_of_week)
       IN  /\ \E s \in SlotsOf(timetables, day) :
                  s.facultyId = last.req.faculty_id /\ ~ListsFree(last.rsp, day, s.period)
           /\ \E s \in SlotsOf(timetables, day) :
                  s.facultyId # last.req.faculty_id /\ ListsFree(last.rsp, day, s.period)

\* The free periods the same call gives with one filter left out.
FreeWithout(coll, req, field) ==
    get_free_periods(coll,
        IF field = "room" THEN [req EXCEPT !.room = None]
        ELSE [req EXCEPT !.faculty_id = None], "none").data.free_periods

BothFilters(call) ==
    /\ call.op = "get_free_periods" /\ call.rsp.success
    /\ Truthy(call.req.faculty_id) /\ Truthy(call.req.room)

\* C14, as claimed: with both facultyId and room given, get_free_periods
\* ignores the room; its free periods are those of the same call without the
\* room filter.
C14_RoomIgnored ==
    BothFilters(last)
    => last.rsp.data.free_periods = FreeWithout(timetables, last.req, "room")

\* C14, as the code has it: with both facultyId and room given, a period is
\* occupied when a slot at it has the faculty or has the room; the free
\* periods are those free in the call with facultyId alone and also free in
\* the call with room alone.
C14_EitherFilterOccupies ==
    BothFilters(last)
    => LET byRoom == FreeWithout(timetables, last.req, "faculty_id")
           alsoByRoom(x) == x \in Range(byRoom)
       IN  /\ last.rsp.data.free_periods =
                  SelectSeq(FreeWithout(timetables, last.req, "room"), alsoByRoom)
           /\ last.rsp.data.total_free = Len(last.rsp.data.free_periods)

\* C14 happens: both filters were given on a store where a period free of
\* the faculty holds a slot of the room, so the room changed the answer.
C14_Witness ==
    /\ BothFilters(last)
    /\ last.rsp.data.free_periods # FreeWithout(timetables, last.req, "room")
    /\ last.rsp.data.free_periods # <<>>

\* C15: without a day, get_free_periods reports free periods of each of the
\* seven days monday..sunday (at least every period that holds no slot at
\* all); with a day, those of that day only.
C15_SevenDays ==
    (/\ last.op = "get_free_periods"
     /\ last.rsp.success
     /\ DayGivenOrNone(last.req))
    => /\ \A day \in DaysAsked(last.req) : \A p \in 1..NumPeriods :
              (~\E s \in SlotsOf(timetables, day) : s.period = p)
                  => ListsFree(last.rsp, day, p)
       /\ DaysListed(last.rsp) \subseteq DaysAsked(last.req)

(***************************************************************************)
(* Properties of get_faculty_schedule                                      *)
(***************************************************************************)
\* Two sequences hold the same elements, each as many times.
SameElements(s, t) ==
    /\ Len(s) = Len(t)
    /\ \A x \in Range(s) : Count(s, x) = Count(t, x)

\* The slots of a document assigned to the faculty.
SlotsOfFaculty(doc, faculty_id) ==
    LET assigned(slot) == slot.facultyId = faculty_id
    IN  SelectSeq(doc.slots, assigned)

\* The faculty of the request is in the faculties collection.
FacultyExists(req) == \E i \in 1..Len(faculties) : faculties[i]._id = req.faculty_id

\* C16: get_faculty_schedule(F) for an existing faculty F succeeds with one
\* entry for each day that holds a slot whose facultyId is F, the entry
\* holding exactly those slots of the day; days without such a slot have no
\* entry, and a faculty without assignments gets an empty schedule.
C16_FacultySchedule ==
    (/\ last.op = "get_faculty_schedule"
     /\ FacultyExists(last.req)
     /\ Answered(last))
    => /\ last.rsp.success
       /\ LET schedule == last.rsp.data.schedule
              assignedDocs == {d \in 1..Len(timetables) :
                                  SlotsOfFaculty(timetables[d], last.req.faculty_id) # <<>>}
          IN  /\ Len(schedule) = Cardinality(assignedDocs)
              /\ \A d \in assignedDocs :
                     \E i \in 1..Len(schedule) :
                         /\ schedule[i].dayOfWeek = timetables[d].dayOfWeek
                         /\ SameElements(schedule[i].slots,
                                SlotsOfFaculty(timetables[d], last.req.faculty_id))

\* C16 happens: the schedule of a faculty has been returned while one day
\* holds a slot of the faculty beside a slot of another faculty.
C16_Witness ==
    /\ last.op = "get_faculty_schedule" /\ last.rsp.success
    /\ last.rsp.data.schedule # <<>>
    /\ \E d \in 1..Len(timetables) :
           /\ SlotsOfFaculty(timetables[d], last.req.faculty_id) # <<>>
           /\ SlotsOfFaculty(timetables[d], last.req.faculty_id) # timetables[d].slots

\* The place of a day in the week, monday first.
WeekdayRank(day) == CHOOSE k \in 1..Len(valid_days) : valid_days[k] = day

\* C17: the days of a get_faculty_schedule result are in weekday order,
\* monday first and sunday last.
C17_WeekdayOrder ==
    (last.op = "get_faculty_schedule" /\ last.rsp.success)
    => \A i, j \in 1..Len(last.rsp.data.schedule) :
           i < j => WeekdayRank(last.rsp.data.schedule[i].dayOfWeek)
                        < WeekdayRank(last.rsp.data.schedule[j].dayOfWeek)

(***************************************************************************)
(* Properties of validation and of what a slot may be bound to             *)
(***************************************************************************)
Writers == {"create_timetable_slot", "update_timetable_slot", "delete_timetable_slot"}

\* The failures of validation.
ValidationMessages ==
    {"Invalid day of week format", "Invalid start time format (use HH:MM)",
     "Invalid end time format (use HH:MM)", "Start time must be before end time"}

\* The time is not HH:MM: for create_timetable_slot, whose times are
\* required, any string that is not; for update_timetable_slot, one given.
BadTime(call, t) ==
    IF call.op = "create_timetable_slot" THEN ~validate_time_format(t)
    ELSE Malformed(t)

\* The call's input is invalid: an unknown weekday label, a malformed time,
\* or two well-formed times with start not before end.
InvalidInput(call) ==
    \/ ~validate_day_of_week(call.req.day_of_week)
    \/ /\ call.op # "delete_timetable_slot"
       /\ \/ BadTime(call, call.req.start_time)
          \/ BadTime(call, call.req.end_time)
          \/ /\ validate_time_format(call.req.start_time)
             /\ validate_time_format(call.req.end_time)
             /\ strptime(call.req.start_time) >= strptime(call.req.end_time)

\* C18: a create, update or delete call with an invalid weekday label, a
\* malformed time or start >= end returns a failure, and a call that returns
\* a validation failure leaves the stored timetable as it was: days, slots
\* and timestamps.
C18_ValidationNoWrite ==
    [][last'.op \in Writers
       => /\ InvalidInput(last') => (~last'.rsp.success /\ timetables' = timetables)
          /\ last'.rsp.message \in ValidationMessages
                 => (~last'.rsp.success /\ timetables' = timetables)]_vars

\* C18 happens: an update naming a stored slot has been refused for a
\* malformed start time.
C18_Witness ==
    /\ last.op = "update_timetable_slot"
    /\ last.rsp.message = "Invalid start time format (use HH:MM)"
    /\ \E s \in SlotsOf(timetables, lower(last.req.day_of_week)) :
           s.period = last.req.period

\* C19: no two slots of one DaySchedule have overlapping [startTime, endTime)
\* intervals, in every state create, update and delete calls lead to.
C19_NoOverlapInDay ==
    \A d \in 1..Len(timetables) :
        \A i, j \in 1..Len(timetables[d].slots) :
            LET a == timetables[d].slots[i]
                b == timetables[d].slots[j]
            IN  (i # j /\ ~a.null /\ ~b.null
                     /\ strptime(a.startTime) >= 0 /\ strptime(a.endTime) >= 0
                     /\ strptime(b.startTime) >= 0 /\ strptime(b.endTime) >= 0)
                => ~(/\ strptime(a.startTime) < strptime(b.endTime)
                     /\ strptime(b.startTime) < strptime(a.endTime))

\* C20: a slot is bound to a faculty only if the faculty exists:
\* create_timetable_slot and update_timetable_slot given a facultyId that
\* resolves to no faculty fail and store nothing, so no stored slot names such
\* a faculty, and get_faculty_schedule of such a faculty fails.
C20_ReferencesResolve ==
    /\ (/\ last.op \in {"create_timetable_slot", "update_timetable_slot",
                        "get_faculty_schedule"}
        /\ Truthy(last.req.faculty_id)
        /\ ~FacultyExists(last.req))
       => ~last.rsp.success
    /\ \A d \in 1..Len(timetables) : \A s \in Range(timetables[d].slots) :
           Truthy(s.facultyId) => \E i \in 1..Len(faculties) : faculties[i]._id = s.facultyId

(***************************************************************************)
(* Properties of the day labels                                            *)
(***************************************************************************)
\* The request with its day label in lower case.
Canonical(req) == [req EXCEPT !.day_of_week = lower(@)]

\* What the call of that name makes of the collection when the store answers.
Handled(op, coll, clock, req) ==
    CASE op = "create_timetable_slot" -> create_timetable_slot(coll, clock, req, "none")
      [] op = "update_timetable_slot" -> update_timetable_slot(coll, clock, req, "none")
      [] op = "delete_timetable_slot" -> delete_timetable_slot(coll, clock, req, "none")
      [] op = "get_timetable_by_day" ->
             Outcome(coll, get_timetable_by_day(coll, req.day_of_week, "none"))

\* C21: weekday labels are case-insensitive and stored in lower case: every
\* stored DaySchedule has one of the seven lower-case labels as dayOfWeek,
\* and a create, update, delete or get_timetable_by_day call with a valid
\* label in any letter case does what the same call with the lower-case label
\* does, to the same document.
C21_DayLabelsCanonical ==
    [][/\ \A d \in 1..Len(timetables') :
              /\ timetables'[d].dayOfWeek \in Range(valid_days)
              /\ lower(timetables'[d].dayOfWeek) = timetables'[d].dayOfWeek
       /\ (/\ last'.op \in Writers \cup {"get_timetable_by_day"}
           /\ validate_day_of_week(last'.req.day_of_week)
           /\ last'.rsp.success)
          => LET same == Handled(last'.op, timetables, now, Canonical(last'.req))
             IN  /\ same.rsp.success
                 /\ same.rsp.data = last'.rsp.data
                 /\ same.coll = timetables'
                 /\ last'.rsp.data.dayOfWeek = lower(last'.req.day_of_week)]_vars

\* C21 happens: a call naming its day with a capital letter has succeeded on
\* the document stored under the lower-case label.
C21_Witness ==
    /\ last.op \in Writers /\ last.rsp.success
    /\ last.req.day_of_week # lower(last.req.day_of_week)
    /\ find_one(timetables, lower(last.req.day_of_week))._id # 0

C23_StorageFailureDistinct ==
    LET answered == check_room_availability(timetables, last.req, "none")
        unreachable == check_room_availability(timetables, last.req, "find")
    IN  (/\ last.op = "check_room_availability"
         /\ Malformed(last.req.start_time) \/ Malformed(last.req.end_time)
         /\ ~answered.success)
        => answered # unreachable

(***************************************************************************)
(* Properties of calls that run concurrently                               *)
(***************************************************************************)
\* The call has written and not yet returned.
Written(p, op) == calls[p].pc = "reread" /\ calls[p].op = op

\* The sequence without its element at the 0-based index.
Without(seq, index) ==
    [i \in 1..(Len(seq) - 1) |-> IF i <= index THEN seq[i] ELSE seq[i + 1]]

\* C24: an update_timetable_slot and a delete_timetable_slot of the same day
\* and period that read the same day document and have both written leave
\* the day as the two calls one after the other would: the slot addressed
\* gone, every other slot as it was, no slot added.
C24_LastWriteWins ==
    \A p, q \in Procs :
        (/\ Written(p, "update_timetable_slot")
         /\ Written(q, "delete_timetable_slot")
         /\ calls[p].req.day_of_week = calls[q].req.day_of_week
         /\ calls[p].req.period = calls[q].req.period
         /\ calls[p].timetable = calls[q].timetable)
        => find_by_id(timetables, calls[p].timetable._id).slots =
               Without(calls[p].timetable.slots,
                       find_slot_index(calls[p].timetable, calls[p].req.period))

\* The process makes its write in this step.
WritesNow(p, op) ==
    /\ calls[p].pc = "write" /\ calls[p].op = op
    /\ calls'[p].pc # "write"

\* C27: the write of update_timetable_slot(day, P, ...) changes no field of a
\* slot whose period is not P and adds no slot, whatever create or delete
\* calls have written to the day since the update read it.
C27_UpdateTouchesOnlyItsSlot ==
    [][\A p \in Procs :
           WritesNow(p, "update_timetable_slot")
           => LET id == calls[p].timetable._id
                  before == find_by_id(timetables, id).slots
                  after == find_by_id(timetables', id).slots
              IN  /\ Len(after) = Len(before)
                  /\ \A i \in 1..Len(before) :
                         (before[i].null \/ before[i].period # calls[p].req.period)
                             => after[i] = before[i]]_vars

\* C29: two create_timetable_slot calls of different periods that both read
\* the same existing DaySchedule and have both written leave the day with
\* both new slots and every slot it held when they read it.
C29_BothCreatesTakeEffect ==
    \A p, q \in Procs :
        (/\ Written(p, "create_timetable_slot")
         /\ Written(q, "create_timetable_slot")
         /\ p # q
         /\ calls[p].req.period # calls[q].req.period
         /\ calls[p].timetable._id # 0
         /\ calls[q].timetable = calls[p].timetable)
        => LET held == calls[p].timetable.slots
               stored == find_by_id(timetables, calls[p].timetable._id).slots
           IN  /\ Len(stored) = Len(held) + 2
               /\ SubSeq(stored, 1, Len(held)) = held
               /\ {stored[Len(held) + 1], stored[Len(held) + 2]} =
                      {new_slot_of(calls[p].req), new_slot_of(calls[q].req)}

\* C29 happens: two creates of different periods have both read a day that
\* holds a slot, and both have written.
C29_Witness ==
    \E p, q \in Procs :
        /\ Written(p, "create_timetable_slot")
        /\ Written(q, "create_timetable_slot")
        /\ calls[p].req.period # calls[q].req.period
        /\ calls[p].timetable._id # 0
        /\ calls[p].timetable.slots # <<>>
        /\ calls[q].timetable = calls[p].timetable

(***************************************************************************)
(* Properties of failures, of the order of slots, and of the life of a day *)
(***************************************************************************)
\* C28: whenever create_timetable_slot, update_timetable_slot or
\* delete_timetable_slot returns a failure, whatever the reason, the stored
\* timetable is what it was before the call.
C28_FailureLeavesStore ==
    [][(last'.op \in Writers /\ ~last'.rsp.success) => timetables' = timetables]_vars

\* C25: in every day of a get_faculty_schedule result the slots are in
\* ascending order of period, in whatever order they were created.
C25_SlotsByPeriod ==
    (last.op = "get_faculty_schedule" /\ last.rsp.success)
    => \A d \in 1..Len(last.rsp.data.schedule) :
           LET slots == last.rsp.data.schedule[d].slots
           IN  \A i, j \in 1..Len(slots) : i < j => slots[i].period <= slots[j].period

\* C26: a DaySchedule, once stored, is stored in every later state under the
\* same day: no create, update or delete removes a document, and a delete
\* that takes the last slot of a day leaves its document with no slots.
C26_DayScheduleStays ==
    [][/\ Len(timetables') >= Len(timetables)
       /\ \A d \in 1..Len(timetables) :
              /\ timetables'[d]._id = timetables[d]._id
              /\ timetables'[d].dayOfWeek = timetables[d].dayOfWeek
       /\ (/\ last'.op = "delete_timetable_slot" /\ last'.rsp.success
           /\ Len(find_one(timetables, lower(last'.req.day_of_week)).slots) = 1)
          => /\ find_one(timetables', lower(last'.req.day_of_week))._id # 0
             /\ find_one(timetables', lower(last'.req.day_of_week)).slots = <<>>
             /\ last'.rsp.data.slots = <<>>]_vars

\* C26 happens: the only slot of a day has been deleted and the day's
\* document is stored without slots.
C26_Witness ==
    /\ last.op = "delete_timetable_slot" /\ last.rsp.success
    /\ find_one(timetables, lower(last.req.day_of_week))._id # 0
    /\ find_one(timetables, lower(last.req.day_of_week)).slots = <<>>

(***************************************************************************)
(* Properties of the counts of the availability queries                    *)
(***************************************************************************)
\* No (dayOfWeek, period) is at two places of the list.
ListedOnce(list) ==
    \A i, j \in 1..Len(list) :
        (list[i].dayOfWeek = list[j].dayOfWeek /\ list[i].period = list[j].period)
            => i = j

\* C30: in every result of check_room_availability total_conflicts is the
\* number of conflicts listed and total_available the number of available
\* slots listed, in every result of get_free_periods total_free is the number
\* of free periods listed, every available or free period listed lies in
\* 1..8, and no (day, period) is listed twice.
C30_CountsConsistent ==
    /\ (last.op = "check_room_availability" /\ last.rsp.success)
       => /\ last.rsp.data.total_conflicts = Len(last.rsp.data.conflicts)
          /\ last.rsp.data.total_available = Len(last.rsp.data.available_slots)
          /\ \A x \in Range(last.rsp.data.available_slots) : x.period \in 1..NumPeriods
          /\ ListedOnce(last.rsp.data.available_slots)
    /\ (last.op = "get_free_periods" /\ last.rsp.success)
       => /\ last.rsp.data.total_free = Len(last.rsp.data.free_periods)
          /\ \A x \in Range(last.rsp.data.free_periods) : x.period \in 1..NumPeriods
          /\ ListedOnce(last.rsp.data.free_periods)

\* C30 happens: free periods have been listed for a day that holds slots,
\* some of its periods free and some not.
C30_Witness ==
    /\ last.op = "get_free_periods" /\ last.rsp.success
    /\ Truthy(last.req.day_of_week)
    /\ last.rsp.data.total_free > 0
    /\ last.rsp.data.total_free < NumPeriods

====
